---- MODULE Spec2Model ----
(***************************************************************************)
(* Model of src/pokemon/api.py: PokemonDataFetcher (one GET per            *)
(* construction), PokemonParser (five projections of the fetched document, *)
(* parse_pokemon_moves issuing one GET per move) and the Pokemon facade.   *)
(*                                                                         *)
(* Python strings that the code transforms (lower, title, capitalize,      *)
(* replace) are sequences of one-character strings; dictionary keys that   *)
(* are only compared are TLA+ strings.  JSON objects are records, JSON     *)
(* arrays are sequences, JSON null / Python None is the record None.       *)
(***************************************************************************)
EXTENDS Integers, Sequences, FiniteSets, TLC

(***************************************************************************)
(* Bounds of the model.                                                    *)
(***************************************************************************)
MaxNameLen == 2
MaxLabelLen == 3
MaxTextLen == 3
MaxEntries == 2
MaxMoves == 2
MaxCalls == 2

(***************************************************************************)
(* Characters and the str methods the code calls.                          *)
(***************************************************************************)
LowerChars == {"a", "b", "p", "i"}
UpperChars == {"A", "B", "P", "I"}

islower(c) == c \in LowerChars
isupper(c) == c \in UpperChars

\* the lower-case form of one character (unicode simple case mapping)
tolower(c) ==
    CASE c = "A" -> "a"
      [] c = "B" -> "b"
      [] c = "P" -> "p"
      [] c = "I" -> "i"
      [] OTHER -> c

\* the upper-case (and title-case) form of one character
toupper(c) ==
    CASE c = "a" -> "A"
      [] c = "b" -> "B"
      [] c = "p" -> "P"
      [] c = "i" -> "I"
      [] OTHER -> c

\* str.lower(): every character lower-cased
lower(s) == [k \in 1..Len(s) |-> tolower(s[k])]

\* str.replace(old, new) for one-character old and new
replace(s, old, new) == [k \in 1..Len(s) |-> IF s[k] = old THEN new ELSE s[k]]

\* variant: only the first character is touched, the rest is kept
capitalize_keep_rest(s) ==
    [k \in 1..Len(s) |-> IF k = 1 THEN toupper(s[k]) ELSE s[k]]

\* str.capitalize(): first character upper-cased, the rest lower-cased
capitalize(s) ==
    [k \in 1..Len(s) |-> IF k = 1 THEN toupper(s[k]) ELSE tolower(s[k])]

\* str.title(): one left-to-right scan carrying previous_is_cased
RECURSIVE title_scan(_, _, _)
title_scan(s, k, previous_is_cased) ==
    IF k > Len(s) THEN <<>>
    ELSE IF islower(s[k])
         THEN <<IF previous_is_cased THEN s[k] ELSE toupper(s[k])>>
              \o title_scan(s, k + 1, TRUE)
         ELSE IF isupper(s[k])
              THEN <<IF previous_is_cased THEN tolower(s[k]) ELSE s[k]>>
                   \o title_scan(s, k + 1, TRUE)
              ELSE <<s[k]>> \o title_scan(s, k + 1, FALSE)

\* variant: the first letter of each word upper-cased, the rest kept
title_keep_rest(s) ==
    [k \in 1..Len(s) |->
        IF /\ islower(s[k])
           /\ (k = 1 \/ ~(islower(s[k - 1]) \/ isupper(s[k - 1])))
        THEN toupper(s[k])
        ELSE s[k]]

title(s) == title_scan(s, 1, FALSE)


(***************************************************************************)
(* Python values: None, a returned value, a raised exception.              *)
(***************************************************************************)
None == [none |-> TRUE]
JInt(n) == [int |-> n]
Return(v) == [kind |-> "return", value |-> v]
Raise(e) == [kind |-> "raise", exc |-> e]
NotCalled == [kind |-> "not_called"]

(***************************************************************************)
(* PokemonDataFetcher.__init__: the resource path of the primary GET.      *)
(***************************************************************************)
BaseUrl == <<"https://pokeapi.co/api/v2/pokemon/">>

\* variant: the name is embedded as given
FetchUrl_as_given(name) == BaseUrl \o name

FetchUrl(name) == BaseUrl \o lower(name)

(***************************************************************************)
(* PokemonParser: the four projections that issue no request.  Each reads  *)
(* one key of the document with d[key], which raises KeyError when the key *)
(* is missing, and loops over the list in document order.                  *)
(***************************************************************************)
RECURSIVE types_loop(_, _, _)
types_loop(slots, k, types) ==
    IF k > Len(slots) THEN types
    ELSE types_loop(slots, k + 1, Append(types, title(slots[k].type.name)))

\* variant: a missing key reads as the empty list (d.get("types", []))
parse_pokemon_types_default(d) ==
    IF "types" \notin DOMAIN d THEN Return(<<>>)
    ELSE Return(types_loop(d.types, 1, <<>>))

parse_pokemon_types(d) ==
    IF "types" \notin DOMAIN d THEN Raise("KeyError")
    ELSE Return(types_loop(d.types, 1, <<>>))

RECURSIVE stats_loop(_, _, _)
stats_loop(entries, k, stats) ==
    IF k > Len(entries) THEN stats
    ELSE stats_loop(entries, k + 1,
                    [key \in DOMAIN stats \cup {entries[k].stat.name} |->
                        IF key = entries[k].stat.name
                        THEN entries[k].base_stat
                        ELSE stats[key]])

\* variant: the first entry of a name wins (stats.setdefault)
RECURSIVE stats_loop_first(_, _, _)
stats_loop_first(entries, k, stats) ==
    IF k > Len(entries) THEN stats
    ELSE stats_loop_first(entries, k + 1,
                          [key \in DOMAIN stats \cup {entries[k].stat.name} |->
                              IF key \in DOMAIN stats
                              THEN stats[key]
                              ELSE entries[k].base_stat])

parse_pokemon_stats_first(d) ==
    IF "stats" \notin DOMAIN d THEN Raise("KeyError")
    ELSE Return(stats_loop_first(d.stats, 1, [key \in {} |-> 0]))

parse_pokemon_stats(d) ==
    IF "stats" \notin DOMAIN d THEN Raise("KeyError")
    ELSE Return(stats_loop(d.stats, 1, [key \in {} |-> 0]))

RECURSIVE abilities_loop(_, _, _)
abilities_loop(entries, k, abilities) ==
    IF k > Len(entries) THEN abilities
    ELSE abilities_loop(entries, k + 1,
                        Append(abilities, title(entries[k].ability.name)))

parse_pokemon_abilities(d) ==
    IF "abilities" \notin DOMAIN d THEN Raise("KeyError")
    ELSE Return(abilities_loop(d.abilities, 1, <<>>))

RECURSIVE game_version_loop(_, _)
game_version_loop(indices, k) ==
    IF k > Len(indices) THEN None
    ELSE IF indices[k].version.name \in {"diamond", "black"}
         THEN indices[k].game_index
         ELSE game_version_loop(indices, k + 1)

\* variant: the scan does not stop at the first match, the last one wins
RECURSIVE game_version_loop_last(_, _, _)
game_version_loop_last(indices, k, found) ==
    IF k > Len(indices) THEN found
    ELSE IF indices[k].version.name \in {"diamond", "black"}
         THEN game_version_loop_last(indices, k + 1, indices[k].game_index)
         ELSE game_version_loop_last(indices, k + 1, found)

parse_pokemon_game_version_last(d) ==
    IF "game_indices" \notin DOMAIN d THEN Raise("KeyError")
    ELSE Return(game_version_loop_last(d.game_indices, 1, None))

parse_pokemon_game_version(d) ==
    IF "game_indices" \notin DOMAIN d THEN Raise("KeyError")
    ELSE Return(game_version_loop(d.game_indices, 1))

(***************************************************************************)
(* parse_pokemon_moves: the record appended for one move, given the parsed *)
(* body of its detail request.                                             *)
(***************************************************************************)
move_description(move_data) ==
    capitalize(replace(move_data.flavor_text_entries[1].flavor_text, "\n", " "))

move_record(move, move_data) ==
    [name |-> move.move.name,
     description |-> move_description(move_data),
     accuracy |-> move_data.accuracy,
     dmg_type |-> move_data.damage_class.name]


(***************************************************************************)
(* The inputs.  A run is the name given to Pokemon(...), the documents the *)
(* service serves per resource path (site) and the move-detail responses   *)
(* it serves per locator (remote).  Each family varies one part of a base  *)
(* run exhaustively within the bounds.                                     *)
(***************************************************************************)
Strings(alphabet, n) == UNION {[1..k -> alphabet] : k \in 0..n}
Lists(elems, n) == UNION {[1..k -> elems] : k \in 0..n}

PkNames == Strings({"p", "P", "i", "I"}, MaxNameLen)
Labels == Strings({"a", "B", "-"}, MaxLabelLen)
SampleLabels == {<<"a", "B">>, <<"b", "-", "a">>}
LabelLists == {<<l>> : l \in Labels} \cup Lists(SampleLabels, MaxEntries)
Texts == Strings({"a", "B", "\n"}, MaxTextLen)

TypeLists == {[k \in DOMAIN ls |-> [type |-> [name |-> ls[k]]]] : ls \in LabelLists}
AbilityLists ==
    {[k \in DOMAIN ls |-> [ability |-> [name |-> ls[k]]]] : ls \in LabelLists}
StatEntries ==
    {[stat |-> [name |-> n], base_stat |-> v] : n \in {"hp", "attack"}, v \in {35, 55}}
StatLists == Lists(StatEntries, MaxEntries)
GameIndexEntries ==
    {[version |-> [name |-> n], game_index |-> JInt(g)] :
        n \in {"diamond", "black", "Diamond"}, g \in {5, 9}}
GameIndexLists == Lists(GameIndexEntries, MaxEntries)

Url1 == <<"https://pokeapi.co/api/v2/move/1/">>
Url2 == <<"https://pokeapi.co/api/v2/move/2/">>
Urls == {Url1, Url2}
MoveRefs ==
    {[move |-> [name |-> <<"t", "A">>, url |-> Url1]],
     [move |-> [name |-> <<"B", "b">>, url |-> Url2]]}
MoveLists == Lists(MoveRefs, MaxMoves)

\* a move-detail response: a JSON body, or a body that is no JSON
Json(body) == [json |-> TRUE, body |-> body]
NotJson == [json |-> FALSE]
Detail(texts, accuracy, class) ==
    Json([flavor_text_entries |-> [k \in DOMAIN texts |-> [flavor_text |-> texts[k]]],
          accuracy |-> accuracy,
          damage_class |-> [name |-> class]])
DetailA == Detail(<<(<<"a", "\n", "B">>), (<<"b">>)>>, JInt(100), "physical")
DetailB == Detail(<<(<<"B", " ", "A">>)>>, None, "status")
SampleResponses == {DetailA, DetailB, Detail(<<>>, JInt(100), "physical"), NotJson}
TextResponses == {Detail(<<t>>, a, "physical") : t \in Texts, a \in {None, JInt(100)}}

BaseName == <<"P", "i">>
BasePath == BaseUrl \o <<"p", "i">>
BaseRemote == [u \in Urls |-> IF u = Url1 THEN DetailA ELSE DetailB]
BaseDoc ==
    [moves |-> <<[move |-> [name |-> <<"t", "A">>, url |-> Url1]]>>,
     types |-> <<[type |-> [name |-> <<"a", "B">>]]>>,
     stats |-> <<[stat |-> [name |-> "hp"], base_stat |-> 35],
                 [stat |-> [name |-> "attack"], base_stat |-> 55]>>,
     abilities |-> <<[ability |-> [name |-> <<"b", "-", "a">>]]>>,
     game_indices |-> <<[version |-> [name |-> "red"], game_index |-> JInt(1)],
                        [version |-> [name |-> "black"], game_index |-> JInt(5)],
                        [version |-> [name |-> "diamond"], game_index |-> JInt(9)]>>]
\* the base document without its `types` key, and a JSON body with none of the keys
NoTypesDoc == [k \in DOMAIN BaseDoc \ {"types"} |-> BaseDoc[k]]
ErrorDoc == [detail |-> "unexpected"]

Documents ==
    {[BaseDoc EXCEPT !.types = x] : x \in TypeLists}
    \cup {[BaseDoc EXCEPT !.abilities = x] : x \in AbilityLists}
    \cup {[BaseDoc EXCEPT !.stats = x] : x \in StatLists}
    \cup {[BaseDoc EXCEPT !.game_indices = x] : x \in GameIndexLists}
    \cup {NoTypesDoc, ErrorDoc}

Run(name, doc, rem) == [name |-> name, site |-> [p \in {BasePath} |-> doc], remote |-> rem]

Runs ==
    {Run(n, BaseDoc, BaseRemote) : n \in PkNames}
    \cup {Run(BaseName, d, BaseRemote) : d \in Documents}
    \cup {Run(BaseName, [BaseDoc EXCEPT !.moves = m], r) :
            m \in MoveLists, r \in [Urls -> SampleResponses]}
    \cup {Run(BaseName, BaseDoc, [BaseRemote EXCEPT ![Url1] = r]) : r \in TextResponses}

(***************************************************************************)
(* State.                                                                  *)
(***************************************************************************)
VARIABLES
    name_arg,       \* the argument of Pokemon(...)
    site,           \* the service: resource path -> creature document
    remote,         \* the service: move locator -> detail response
    pc,             \* "start", "ctor_raised", "idle", "loop", "wait"
    pk_name,        \* Pokemon.pk_name, None before construction
    pokemon_json,   \* PokemonDataFetcher.pokemon_json = PokemonParser.pokemon_data
    i,              \* parse_pokemon_moves: index of the current move
    moves,          \* parse_pokemon_moves: the local list `moves`
    gets,           \* every requests.get issued so far, in order (its url)
    returned,       \* how many of them have returned or raised
    results,        \* per accessor, what its last call returned or raised
    calls,          \* number of get_moves calls started
    callStart,      \* Len(gets) when the last get_moves call started
    completed,      \* number of get_moves calls that returned
    flaky           \* some request failed in transit (ConnectionError)

vars ==
    <<name_arg, site, remote, pc, pk_name, pokemon_json, i, moves, gets,
      returned, results, calls, callStart, completed, flaky>>

env == <<name_arg, site, remote>>

Accessors == {"get_moves", "get_types", "get_stats", "get_abilities", "get_game_version"}

Init ==
    /\ \E r \in Runs : name_arg = r.name /\ site = r.site /\ remote = r.remote
    /\ pc = "start"
    /\ pk_name = None
    /\ pokemon_json = None
    /\ i = 0
    /\ moves = <<>>
    /\ gets = <<>>
    /\ returned = 0
    /\ results = [a \in Accessors |-> NotCalled]
    /\ calls = 0
    /\ callStart = 0
    /\ completed = 0
    /\ flaky = FALSE


(***************************************************************************)
(* Pokemon.__init__ -> PokemonDataFetcher.__init__: one GET; the object    *)
(* exists only if requests.get(...).json() returns.                        *)
(***************************************************************************)
Construct ==
    /\ pc = "start"
    /\ FetchUrl(name_arg) \in DOMAIN site
    /\ gets' = Append(gets, FetchUrl(name_arg))
    /\ returned' = returned + 1
    /\ pk_name' = name_arg
    /\ pokemon_json' = site[FetchUrl(name_arg)]
    /\ pc' = "idle"
    /\ UNCHANGED <<env, i, moves, results, calls, callStart, completed, flaky>>

\* the GET raises in transit, or the path is not served and .json() raises
ConstructRaises ==
    /\ pc = "start"
    /\ gets' = Append(gets, FetchUrl(name_arg))
    /\ returned' = returned + 1
    /\ flaky' = (FetchUrl(name_arg) \in DOMAIN site)
    /\ pc' = "ctor_raised"
    /\ UNCHANGED <<env, pk_name, pokemon_json, i, moves, results, calls, callStart,
                   completed>>

(***************************************************************************)
(* The accessors that issue no request: each delegates to the parser.      *)
(***************************************************************************)
\* variant: the list is reversed in place inside the stored document
get_types_in_place ==
    /\ pc = "idle"
    /\ results' = [results EXCEPT !["get_types"] = parse_pokemon_types(pokemon_json)]
    /\ pokemon_json' =
         IF "types" \in DOMAIN pokemon_json
         THEN [pokemon_json EXCEPT
                 !.types = [k \in DOMAIN @ |-> @[Len(@) + 1 - k]]]
         ELSE pokemon_json
    /\ UNCHANGED <<env, pc, pk_name, i, moves, gets, returned,
                   calls, callStart, completed, flaky>>

get_types ==
    /\ pc = "idle"
    /\ results' = [results EXCEPT !["get_types"] = parse_pokemon_types(pokemon_json)]
    /\ UNCHANGED <<env, pc, pk_name, pokemon_json, i, moves, gets, returned,
                   calls, callStart, completed, flaky>>

get_stats ==
    /\ pc = "idle"
    /\ results' = [results EXCEPT !["get_stats"] = parse_pokemon_stats(pokemon_json)]
    /\ UNCHANGED <<env, pc, pk_name, pokemon_json, i, moves, gets, returned,
                   calls, callStart, completed, flaky>>

get_abilities ==
    /\ pc = "idle"
    /\ results' =
         [results EXCEPT !["get_abilities"] = parse_pokemon_abilities(pokemon_json)]
    /\ UNCHANGED <<env, pc, pk_name, pokemon_json, i, moves, gets, returned,
                   calls, callStart, completed, flaky>>

get_game_version ==
    /\ pc = "idle"
    /\ results' =
         [results EXCEPT !["get_game_version"] = parse_pokemon_game_version(pokemon_json)]
    /\ UNCHANGED <<env, pc, pk_name, pokemon_json, i, moves, gets, returned,
                   calls, callStart, completed, flaky>>

(***************************************************************************)
(* get_moves -> parse_pokemon_moves, one step per request and per response.*)
(***************************************************************************)
\* variant: a list that was returned once is returned again without requests
get_moves_memoized ==
    /\ pc = "idle"
    /\ calls < MaxCalls
    /\ calls' = calls + 1
    /\ callStart' = Len(gets)
    /\ IF results["get_moves"].kind = "return"
       THEN /\ completed' = completed + 1
            /\ UNCHANGED <<pc, i, moves, results>>
       ELSE /\ IF "moves" \in DOMAIN pokemon_json
               THEN /\ pc' = "loop"
                    /\ i' = 1
                    /\ moves' = <<>>
                    /\ UNCHANGED results
               ELSE /\ results' = [results EXCEPT !["get_moves"] = Raise("KeyError")]
                    /\ i' = 0
                    /\ UNCHANGED <<pc, moves>>
            /\ UNCHANGED completed
    /\ UNCHANGED <<env, pk_name, pokemon_json, gets, returned, flaky>>

\* the call: moves = [] and the loop is entered (KeyError without the key)
get_moves ==
    /\ pc = "idle"
    /\ calls < MaxCalls
    /\ calls' = calls + 1
    /\ callStart' = Len(gets)
    /\ IF "moves" \in DOMAIN pokemon_json
       THEN /\ pc' = "loop"
            /\ i' = 1
            /\ moves' = <<>>
            /\ UNCHANGED results
       ELSE /\ results' = [results EXCEPT !["get_moves"] = Raise("KeyError")]
            /\ i' = 0
            /\ UNCHANGED <<pc, moves>>
    /\ UNCHANGED <<env, pk_name, pokemon_json, gets, returned, completed, flaky>>

\* variant: the locators are requested from the last move to the first
moves_request_reversed ==
    /\ pc = "loop"
    /\ i <= Len(pokemon_json.moves)
    /\ gets' = Append(gets,
                      pokemon_json.moves[Len(pokemon_json.moves) + 1 - i].move.url)
    /\ pc' = "wait"
    /\ UNCHANGED <<env, pk_name, pokemon_json, i, moves, returned, results,
                   calls, callStart, completed, flaky>>

\* requests.get(move["move"]["url"]) is issued for the current move
moves_request ==
    /\ pc = "loop"
    /\ i <= Len(pokemon_json.moves)
    /\ gets' = Append(gets, pokemon_json.moves[i].move.url)
    /\ pc' = "wait"
    /\ UNCHANGED <<env, pk_name, pokemon_json, i, moves, returned, results,
                   calls, callStart, completed, flaky>>

\* .json() returns the body: the record is appended, or [0] raises IndexError
moves_response ==
    /\ pc = "wait"
    /\ remote[gets[Len(gets)]].json
    /\ returned' = returned + 1
    /\ LET move_data == remote[gets[Len(gets)]].body
       IN IF move_data.flavor_text_entries = <<>>
          THEN /\ results' = [results EXCEPT !["get_moves"] = Raise("IndexError")]
               /\ moves' = <<>>
               /\ pc' = "idle"
               /\ UNCHANGED i
          ELSE /\ moves' = Append(moves, move_record(pokemon_json.moves[i], move_data))
               /\ i' = i + 1
               /\ pc' = "loop"
               /\ UNCHANGED results
    /\ UNCHANGED <<env, pk_name, pokemon_json, gets, calls, callStart, completed,
                   flaky>>

\* variant: a failed request is issued again instead of ending the call
moves_fetch_raises_retried ==
    /\ pc = "wait"
    /\ returned' = returned + 1
    /\ flaky' = TRUE
    /\ pc' = "loop"
    /\ UNCHANGED <<env, pk_name, pokemon_json, i, moves, gets, results, calls,
                   callStart, completed>>

\* the GET raises in transit, or the body is no JSON and .json() raises:
\* nothing catches it, the call ends
moves_fetch_raises ==
    /\ pc = "wait"
    /\ returned' = returned + 1
    /\ \E cause \in {"ConnectionError", "JSONDecodeError"} :
         /\ cause = "JSONDecodeError" => ~remote[gets[Len(gets)]].json
         /\ results' = [results EXCEPT !["get_moves"] = Raise(cause)]
         /\ flaky' = (flaky \/ cause = "ConnectionError")
    /\ moves' = <<>>
    /\ pc' = "idle"
    /\ UNCHANGED <<env, pk_name, pokemon_json, i, gets, calls, callStart, completed>>

\* the loop is over: return moves
moves_return ==
    /\ pc = "loop"
    /\ i > Len(pokemon_json.moves)
    /\ results' = [results EXCEPT !["get_moves"] = Return(moves)]
    /\ completed' = completed + 1
    /\ moves' = <<>>
    /\ pc' = "idle"
    /\ UNCHANGED <<env, pk_name, pokemon_json, i, gets, returned, calls,
                   callStart, flaky>>

Next ==
    \/ Construct
    \/ ConstructRaises
    \/ get_types
    \/ get_stats
    \/ get_abilities
    \/ get_game_version
    \/ get_moves
    \/ moves_request
    \/ moves_response
    \/ moves_fetch_raises
    \/ moves_return

Spec == Init /\ [][Next]_vars


(***************************************************************************)
(* Properties.                                                             *)
(***************************************************************************)
Constructed == pc \in {"idle", "loop", "wait"}
Called(a) == results[a] # NotCalled
NumMoves == IF "moves" \in DOMAIN pokemon_json THEN Len(pokemon_json.moves) ELSE 0

\* the entries of game_indices whose version name is exactly diamond or black
Matching(indices) ==
    {k \in 1..Len(indices) :
        indices[k].version.name = "diamond" \/ indices[k].version.name = "black"}

\* C1: get_game_version returns the game_index of the matching entry that
\* comes first in document order, and None (raising nothing) when the list
\* is empty or holds no matching entry.
GameVersionFirstMatch ==
    (Called("get_game_version") /\ "game_indices" \in DOMAIN pokemon_json) =>
        LET indices == pokemon_json.game_indices
            ret == results["get_game_version"]
        IN IF Matching(indices) = {}
           THEN ret = Return(None)
           ELSE \E k \in Matching(indices) :
                   /\ \A j \in Matching(indices) : k <= j
                   /\ ret = Return(indices[k].game_index)

\* C1 witness: two matching entries, and the returned index is that of the
\* first, which is neither the last match nor the smallest index.
GameVersionFirstMatchWitness ==
    /\ Called("get_game_version")
    /\ "game_indices" \in DOMAIN pokemon_json
    /\ LET indices == pokemon_json.game_indices
       IN /\ Len(indices) = 2
          /\ Matching(indices) = {1, 2}
          /\ indices[1].game_index.int > indices[2].game_index.int
          /\ results["get_game_version"] = Return(indices[1].game_index)

\* C2: the requests of one get_moves call go to the locators of the move
\* entries in document order, at most one request is outstanding at any
\* time, and a call that returns has issued exactly one request per entry
\* and returns one record per entry carrying the entry's name as it is.
MovesSequentialInOrder ==
    /\ Len(gets) - returned \in {0, 1}
    /\ (pc = "wait") = (Len(gets) - returned = 1)
    /\ (Constructed /\ calls > 0 /\ "moves" \in DOMAIN pokemon_json) =>
          /\ Len(gets) - callStart <= NumMoves
          /\ \A k \in 1..(Len(gets) - callStart) :
                gets[callStart + k] = pokemon_json.moves[k].move.url
    /\ (pc = "idle" /\ results["get_moves"].kind = "return") =>
          /\ Len(gets) - callStart = NumMoves
          /\ Len(results["get_moves"].value) = NumMoves
          /\ \A k \in 1..NumMoves :
                results["get_moves"].value[k].name = pokemon_json.moves[k].move.name

\* C2 witness: a call over two entries with different locators has returned.
MovesSequentialInOrderWitness ==
    /\ pc = "idle"
    /\ results["get_moves"].kind = "return"
    /\ NumMoves = 2
    /\ pokemon_json.moves[1].move.url # pokemon_json.moves[2].move.url
    /\ Len(results["get_moves"].value) = 2

\* two names that differ only in letter case
DifferOnlyInCase(a, b) ==
    /\ Len(a) = Len(b)
    /\ \A k \in 1..Len(a) : a[k] = b[k] \/ toupper(a[k]) = b[k] \/ a[k] = toupper(b[k])

PrimaryGets == {k \in 1..Len(gets) : SubSeq(gets[k], 1, Len(BaseUrl)) = BaseUrl}

\* C3: construction issues exactly one primary GET, to the base URL followed
\* by the lower-cased name, and stores the document served there; every name
\* that differs from the given one only in letter case asks for the same path.
ConstructOnePrimaryGet ==
    pc # "start" =>
        /\ PrimaryGets = {1}
        /\ gets[1] = BaseUrl \o [k \in 1..Len(name_arg) |-> tolower(name_arg[k])]
        /\ \A n \in PkNames : DifferOnlyInCase(n, name_arg) => FetchUrl(n) = gets[1]
        /\ Constructed => (pk_name = name_arg /\ pokemon_json = site[gets[1]])

\* C3 witness: an object was constructed from a name written in upper case.
ConstructOnePrimaryGetWitness ==
    /\ pc = "idle"
    /\ pk_name = <<"P", "I">>
    /\ gets = <<BasePath>>

\* C4: the keys of the get_stats result are exactly the stat names of the
\* document, and each maps to the base_stat of the last entry of that name.
StatsLastWins ==
    (Called("get_stats") /\ "stats" \in DOMAIN pokemon_json) =>
        LET entries == pokemon_json.stats
            ret == results["get_stats"]
            Last(n) == CHOOSE k \in 1..Len(entries) :
                          /\ entries[k].stat.name = n
                          /\ \A j \in (k + 1)..Len(entries) : entries[j].stat.name # n
        IN /\ ret.kind = "return"
           /\ DOMAIN ret.value = {entries[k].stat.name : k \in 1..Len(entries)}
           /\ \A n \in DOMAIN ret.value : ret.value[n] = entries[Last(n)].base_stat

\* C4 witness: a name occurs twice with different values, the later is kept.
StatsLastWinsWitness ==
    /\ Called("get_stats")
    /\ "stats" \in DOMAIN pokemon_json
    /\ LET entries == pokemon_json.stats
       IN /\ Len(entries) = 2
          /\ entries[1].stat.name = entries[2].stat.name
          /\ entries[1].base_stat # entries[2].base_stat
          /\ results["get_stats"] = Return([n \in {entries[2].stat.name} |->
                                              entries[2].base_stat])


IsLetter(c) == islower(c) \/ isupper(c)
WordStart(s, k) == IsLetter(s[k]) /\ (k = 1 \/ ~IsLetter(s[k - 1]))

\* title case as the glossary has it: word-initial letters upper-cased, the
\* other characters unchanged
TitleRestUnchanged(s) ==
    [k \in 1..Len(s) |-> IF WordStart(s, k) THEN toupper(s[k]) ELSE s[k]]

\* title case with the other letters of each word lower-cased
TitleRestLowered(s) ==
    [k \in 1..Len(s) |-> IF WordStart(s, k) THEN toupper(s[k]) ELSE tolower(s[k])]

\* the two readings of title case, by what happens to the rest of a word
TitleCase(rest, s) ==
    IF rest = "lowered" THEN TitleRestLowered(s) ELSE TitleRestUnchanged(s)

\* get_types and get_abilities return every name in title case, in order
LabelsTitled(rest) ==
    /\ (Called("get_types") /\ "types" \in DOMAIN pokemon_json) =>
          results["get_types"] =
             Return([k \in 1..Len(pokemon_json.types) |->
                        TitleCase(rest, pokemon_json.types[k].type.name)])
    /\ (Called("get_abilities") /\ "abilities" \in DOMAIN pokemon_json) =>
          results["get_abilities"] =
             Return([k \in 1..Len(pokemon_json.abilities) |->
                        TitleCase(rest, pokemon_json.abilities[k].ability.name)])

\* C5 as stated: get_types and get_abilities return, in source order and
\* with the same length, each name with the first letter of each word
\* upper-cased and the remaining letters unchanged.
TitleCaseRestUnchanged == LabelsTitled("unchanged")

\* C5, amended: get_types and get_abilities return, in source order and with
\* the same length, each name with the first letter of each word (a maximal
\* run of letters) upper-cased and the remaining letters lower-cased.
TitleCaseRestLowered == LabelsTitled("lowered")

\* C5 witness: two type names in order, one with an upper-case letter inside
\* a word and one with two words.
TitleCaseRestLoweredWitness ==
    /\ "types" \in DOMAIN pokemon_json
    /\ Len(pokemon_json.types) = 2
    /\ pokemon_json.types[1].type.name = <<"a", "B">>
    /\ pokemon_json.types[2].type.name = <<"b", "-", "a">>
    /\ results["get_types"] = Return(<<(<<"A", "b">>), (<<"B", "-", "A">>)>>)

\* C6 as stated: get_types returns the empty sequence, raising nothing, when
\* the `types` list is empty and when the document has no `types` key.
TypesEmptyOrAbsent ==
    (Constructed /\ Called("get_types")) =>
        (("types" \notin DOMAIN pokemon_json \/ pokemon_json.types = <<>>)
            => results["get_types"] = Return(<<>>))

\* C6, amended: get_types returns the empty sequence, raising nothing, when
\* the `types` list is empty; when the document has no `types` key the call
\* raises KeyError and returns nothing.
TypesEmptyOrKeyError ==
    (Constructed /\ Called("get_types")) =>
        IF "types" \notin DOMAIN pokemon_json
        THEN results["get_types"] = Raise("KeyError")
        ELSE pokemon_json.types = <<>> => results["get_types"] = Return(<<>>)

\* C6 witness: get_types was called on a document whose `types` list is empty.
TypesEmptyOrKeyErrorWitness ==
    /\ Constructed
    /\ "types" \in DOMAIN pokemon_json
    /\ pokemon_json.types = <<>>
    /\ results["get_types"] = Return(<<>>)

\* the description the claim gives for a flavor text
ExpectedDescription(text) ==
    [k \in 1..Len(text) |->
        LET c == IF text[k] = "\n" THEN " " ELSE text[k]
        IN IF k = 1 THEN toupper(c) ELSE tolower(c)]

\* C7: every record get_moves returns has as description the first flavor
\* text of the move's detail document with each newline replaced by a space,
\* its first character upper-cased and all others lower-cased, and as
\* accuracy the detail document's accuracy as it is, None included.
MoveDescriptionAndAccuracy ==
    (pc = "idle" /\ results["get_moves"].kind = "return") =>
        \A k \in 1..Len(results["get_moves"].value) :
            LET move_data == remote[pokemon_json.moves[k].move.url].body
                rec == results["get_moves"].value[k]
            IN /\ rec.description =
                     ExpectedDescription(move_data.flavor_text_entries[1].flavor_text)
               /\ rec.accuracy = move_data.accuracy

\* C7 witness: a returned record whose flavor text held a newline and an
\* upper-case letter after the first character, with accuracy None.
MoveDescriptionAndAccuracyWitness ==
    /\ pc = "idle"
    /\ results["get_moves"].kind = "return"
    /\ Len(results["get_moves"].value) = 1
    /\ remote[Url1] = Detail(<<(<<"a", "\n", "B">>)>>, None, "physical")
    /\ results["get_moves"].value[1].description = <<"A", " ", "b">>
    /\ results["get_moves"].value[1].accuracy = None


Min(a, b) == IF a < b THEN a ELSE b

\* C8 as stated: after construction and any sequence of accessor calls, the
\* number of GETs issued is 1 + k * n, k the number of get_moves calls and n
\* the number of move entries.
GetsOnePlusCallsTimesMoves ==
    pc = "idle" => Len(gets) = 1 + calls * NumMoves

\* C8, amended: nothing is memoized.  After construction and any sequence of
\* accessor calls the first GET is the only primary one, and the number of
\* GETs issued is 1 plus n for every get_moves call that returned plus j, with
\* 1 <= j <= n, for every get_moves call that raised at its j-th move; so it
\* is 1 + k * n when none of the k get_moves calls raised.  The other four
\* accessors issue no GET.
GetsCountNoMemo ==
    pc = "idle" =>
        /\ PrimaryGets = {1}
        /\ gets[1] = FetchUrl(pk_name)
        /\ Len(gets) >= 1 + completed * NumMoves
                          + (calls - completed) * Min(1, NumMoves)
        /\ Len(gets) <= 1 + calls * NumMoves
        /\ completed = calls => Len(gets) = 1 + calls * NumMoves

\* C8 witness: two get_moves calls over two entries returned, every other
\* accessor was called as well, and five GETs were issued.
GetsCountNoMemoWitness ==
    /\ pc = "idle"
    /\ calls = 2
    /\ completed = 2
    /\ NumMoves = 2
    /\ \A a \in Accessors : Called(a)
    /\ Len(gets) = 5

\* C9: after construction no accessor call changes the stored document, and
\* a call of an accessor that was called before returns (or raises) what the
\* earlier call did -- for get_moves provided every detail request so far was
\* answered with what the service holds for its locator.
DocumentAndResultsStable ==
    [][/\ Constructed => pokemon_json' = pokemon_json
       /\ \A a \in Accessors :
             (Called(a) /\ (a = "get_moves" => ~flaky'))
                => results'[a] = results[a]]_vars

\* C9 witness: get_moves returned two records twice and every other accessor
\* was called, with no request failing in transit.
DocumentAndResultsStableWitness ==
    /\ pc = "idle"
    /\ ~flaky
    /\ calls = 2
    /\ completed = 2
    /\ Len(results["get_moves"].value) = 2
    /\ \A a \in Accessors : Called(a)

TransportErrors == {"ConnectionError", "JSONDecodeError"}

\* C10: a failed primary fetch ends construction with no object and nothing
\* further requested; a detail fetch that fails at the j-th move ends that
\* get_moves call with the error, after exactly the j requests for moves 1..j
\* (none repeated, none for later moves), returning no list; and a call never
\* gets past a move whose detail fetch cannot succeed.
TransportFailuresPropagate ==
    /\ pc = "ctor_raised" =>
          /\ pk_name = None
          /\ pokemon_json = None
          /\ Len(gets) = 1
          /\ \A a \in Accessors : ~Called(a)
    /\ (pc = "idle" /\ results["get_moves"].kind = "raise"
          /\ results["get_moves"].exc \in TransportErrors) =>
          /\ results["get_moves"] = Raise(results["get_moves"].exc)
          /\ moves = <<>>
          /\ 1 <= i /\ i <= NumMoves
          /\ Len(gets) - callStart = i
          /\ \A k \in 1..i : gets[callStart + k] = pokemon_json.moves[k].move.url
    /\ pc = "loop" => Len(gets) - callStart = i - 1
    /\ pc = "wait" => Len(gets) - callStart = i
    /\ pc \in {"loop", "wait"} =>
          \A k \in 1..(i - 1) : remote[pokemon_json.moves[k].move.url].json

\* C10 witness: with two move entries, the detail fetch of the second failed
\* after the first had produced a record; two requests were issued by the
\* call and the call raised.
TransportFailuresPropagateWitness ==
    /\ pc = "idle"
    /\ NumMoves = 2
    /\ i = 2
    /\ results["get_moves"].kind = "raise"
    /\ results["get_moves"].exc = "ConnectionError"
    /\ Len(gets) - callStart = 2

====
